---------------------------- MODULE Spec2Model ----------------------------
(***************************************************************************)
(* The Quandl functions (quandl-list, quandl-series, quandl-table) as a    *)
(* state machine: one invocation of an entry point against an upstream     *)
(* HTTP server.                                                            *)
(*                                                                         *)
(* Representation.  A Python string is a sequence of one-character TLA+    *)
(* strings (<<"a", ",", "B">> is "a,B"), so that split, strip and lower    *)
(* are computed.  A JSON value of the caller input is a record [t, v]:     *)
(* t = "str" (v the characters), "list" (v the items), "num" or "none".    *)
(* A cell of an upstream data row is the JSON text of its value ("null",   *)
(* "0", "false", "\"\"", "1", "\"x\"", ...).                               *)
(***************************************************************************)
EXTENDS Integers, Sequences, FiniteSets, TLC

(***************************************************************************)
(* Bounds of the model.                                                    *)
(***************************************************************************)
MaxPropLen == 3      \* longest properties string the caller passes
MaxListLen == 2      \* longest properties list the caller passes
MaxPages == 3        \* most pages a table is split into
MaxPageRows == 2     \* most rows on one page
MaxTableRows == 3    \* most rows a table holds
MaxRequests == 4     \* most GETs one invocation is followed through

(***************************************************************************)
(* Python strings.                                                         *)
(***************************************************************************)
None == <<"None">>

Str(chars) == [t |-> "str", v |-> chars]
List(items) == [t |-> "list", v |-> items]
Num == [t |-> "num", v |-> 0]
NoneVal == [t |-> "none", v |-> 0]

LowerChar(c) ==
    CASE c = "A" -> "a"
      [] c = "B" -> "b"
      [] OTHER -> c

\* str.lower()
Lower(s) == [i \in 1..Len(s) |-> LowerChar(s[i])]

IsSpace(c) == c = " "

RECURSIVE LStrip(_)
LStrip(s) ==
    IF s # <<>> /\ IsSpace(Head(s)) THEN LStrip(Tail(s)) ELSE s

RECURSIVE RStrip(_)
RStrip(s) ==
    IF s # <<>> /\ IsSpace(s[Len(s)]) THEN RStrip(SubSeq(s, 1, Len(s) - 1)) ELSE s

\* str.strip()
Strip(s) == RStrip(LStrip(s))

\* str.split(sep): the segments between the separators, empty ones kept
RECURSIVE SplitFrom(_, _, _, _)
SplitFrom(s, sep, cur, acc) ==
    IF s = <<>> THEN Append(acc, cur)
    ELSE IF Head(s) = sep THEN SplitFrom(Tail(s), sep, <<>>, Append(acc, cur))
    ELSE SplitFrom(Tail(s), sep, Append(cur, Head(s)), acc)

Split(s, sep) == SplitFrom(s, sep, <<>>, <<>>)

\* sep.join(list)
RECURSIVE Join(_, _)
Join(list, sep) ==
    IF list = <<>> THEN <<>>
    ELSE IF Len(list) = 1 THEN list[1]
    ELSE list[1] \o <<sep>> \o Join(Tail(list), sep)

(***************************************************************************)
(* Parameter normalisation: to_list, validator_list and the cerberus       *)
(* Validator that applies them (defaults, then coerce, then validation).   *)
(***************************************************************************)
Raise == [t |-> "raise", v |-> 0]

\* iterating one element of the list given to itertools.chain.from_iterable:
\* a string yields its characters, a list its items, anything else raises
IterItems(x) ==
    CASE x.t = "str" -> [i \in 1..Len(x.v) |-> Str(<<x.v[i]>>)]
      [] x.t = "list" -> x.v
      [] OTHER -> <<Raise>>

RECURSIVE ChainFromIterable(_)
ChainFromIterable(items) ==
    IF items = <<>> THEN <<>>
    ELSE IterItems(Head(items)) \o ChainFromIterable(Tail(items))

\* (mutant) a value that is neither a string nor a list becomes an empty list
to_listLenient(value) ==
    CASE value.t = "str" ->
            LET parts == Split(value.v, ",")
            IN  List([i \in 1..Len(parts) |-> Str(parts[i])])
      [] value.t = "list" ->
            LET flat == ChainFromIterable(value.v)
            IN  IF \E i \in 1..Len(flat) : flat[i] = Raise THEN Raise ELSE List(flat)
      [] OTHER -> List(<<>>)

to_list(value) ==
    CASE value.t = "str" ->
            LET parts == Split(value.v, ",")
            IN  List([i \in 1..Len(parts) |-> Str(parts[i])])
      [] value.t = "list" ->
            LET flat == ChainFromIterable(value.v)
            IN  IF \E i \in 1..Len(flat) : flat[i] = Raise THEN Raise ELSE List(flat)
      [] OTHER -> NoneVal

\* TRUE when validator_list reports no error
validator_list(value) ==
    CASE value.t = "str" -> TRUE
      [] value.t = "list" -> \A i \in 1..Len(value.v) : value.v[i].t = "str"
      [] OTHER -> FALSE

\* str.split(sep, 1): at most one split, at the first separator
RECURSIVE SplitOnceFrom(_, _, _)
SplitOnceFrom(s, sep, cur) ==
    IF s = <<>> THEN <<cur>>
    ELSE IF Head(s) = sep THEN <<cur, Tail(s)>>
    ELSE SplitOnceFrom(Tail(s), sep, Append(cur, Head(s)))

SplitOnce(s, sep) == SplitOnceFrom(s, sep, <<>>)

(***************************************************************************)
(* urllib.parse.parse_qs with its defaults (keep_blank_values=False,       *)
(* strict_parsing=False): the (name, value) pairs of the segments that     *)
(* hold a "=" and a non-empty value, in order; the other segments are      *)
(* skipped.  The model's strings hold no "%" or "+", so unquoting changes  *)
(* nothing.                                                                *)
(***************************************************************************)
RECURSIVE QsPairs(_)
QsPairs(segments) ==
    IF segments = <<>> THEN <<>>
    ELSE LET nv == SplitOnce(Head(segments), "=")
         IN  IF Len(nv) = 2 /\ nv[2] # <<>>
             THEN <<nv>> \o QsPairs(Tail(segments))
             ELSE QsPairs(Tail(segments))

parse_qsl(qs) == QsPairs(Split(qs, "&"))

\* the values parse_qs collects under one name, in order
RECURSIVE QsValues(_, _)
QsValues(pairs, name) ==
    IF pairs = <<>> THEN <<>>
    ELSE IF Head(pairs)[1] = name THEN <<Head(pairs)[2]>> \o QsValues(Tail(pairs), name)
    ELSE QsValues(Tail(pairs), name)

parse_qs(qs) ==
    LET pairs == parse_qsl(qs)
        names == {pairs[i][1] : i \in 1..Len(pairs)}
    IN  [n \in names |-> QsValues(pairs, n)]

(***************************************************************************)
(* Column projection.                                                      *)
(***************************************************************************)
EmptyString == "\"\""
NoneCell == "null"

\* the JSON values Python treats as false
Falsy == {"null", "0", "0.0", "false", "\"\"", "[]", "{}"}

Truthy(v) == v \notin Falsy

\* dict(zip(keys, vals)).get(p): zip stops at the shorter list and a later
\* pair replaces an earlier one with the same key
DictZipGet(keys, vals, p) ==
    LET n == IF Len(keys) < Len(vals) THEN Len(keys) ELSE Len(vals)
        idx == {i \in 1..n : keys[i] = p}
    IN  IF idx = {} THEN NoneCell
        ELSE vals[CHOOSE i \in idx : \A j \in idx : j <= i]

\* item.get(p) or ''
GetOrEmpty(keys, vals, p) ==
    LET v == DictZipGet(keys, vals, p)
    IN  IF Truthy(v) THEN v ELSE EmptyString

\* [item.get(p) or '' for p in properties]
Project(keys, vals, props) ==
    [i \in 1..Len(props) |-> GetOrEmpty(keys, vals, props[i])]

\* [c.lower().strip() for c in columns]
CleanNames(names) == [i \in 1..Len(names) |-> Strip(Lower(names[i]))]

Wildcard == << <<"*">> >>

\* (mutant) the wildcard is left as it is
ResolvePropertiesNever(props, cols) == props

\* if len(properties) == 1 and properties[0] == '*': properties = columns
ResolveProperties(props, cols) == IF props = Wildcard THEN cols ELSE props

(***************************************************************************)
(* The inputs of an invocation: the entry point, the credential, the       *)
(* caller's input and what the upstream server holds.                      *)
(***************************************************************************)
SeqsUpTo(S, n) == UNION {[1..k -> S] : k \in 0..n}

Variants == {"list", "series", "table"}

ApiKey == <<"key">>

TableName == Str(<<"t">>)

PropChars == {"a", "B", " ", ",", "*"}

PropStrings == SeqsUpTo(PropChars, MaxPropLen)

PropItems ==
    { Str(<<"a">>), Str(<<"B">>), Str(<<"a", "b">>), Str(<<"*">>), Num,
      List(<<Str(<<"a">>)>>), List(<<Str(<<"B", " ">>), Str(<<"a">>)>>), List(<<Num>>) }

PropLists == SeqsUpTo(PropItems, MaxListLen)

\* every shape of the properties parameter
RichProperties ==
    {Str(s) : s \in PropStrings} \cup {List(l) : l \in PropLists} \cup {Num, NoneVal}

PlainProperties == {Str(<<"*">>), Str(<<"a">>), Str(<<"B", ",", " ", "a">>)}

FilterStrings ==
    { <<>>,
      <<"k", "=", "v">>,
      <<"k", "=", "v", ",", "w">>,
      <<"k", "=", "v", "&", "k", "=", "w">>,
      <<"k", "=", "v", "&", "j", "=", "w">>,
      <<"k", "=", "v", ",", "w", "&", "j", "=", "x">>,
      <<"k">>,
      <<"k", "=", "v", "&", "j">>,
      <<"k", "=">>,
      <<"api_key", "=", "v">>,
      <<"qopts.per_page", "=", "v">>,
      <<"qopts.cursor_id", "=", "c2">> }

Malformed == [t |-> "malformed", v |-> 0]

\* what the server sends as column names, before the clean-up
ColA == <<"A">>
ColB == <<" ", "b">>

ColumnLists == { <<>>, <<ColA>>, <<ColA, ColB>>, <<ColB, ColA>> }

CellValues == {"null", "0", "\"x\""}

RowPool ==
    << <<"1", "null">>, <<"\"x\"", "2">>, <<"0", "\"y\"">>, <<"3", "false">>,
       <<"\"\"", "4">>, <<"5", "\"z\"">> >>

CursorNames == <<"c1", "c2", "c3", "c4", "c5", "c6">>

\* the cursor the server hands out for page i
CursorOf(i) == <<CursorNames[i]>>

RECURSIVE Sum(_)
Sum(s) == IF s = <<>> THEN 0 ELSE Head(s) + Sum(Tail(s))

\* a table of Sum(sizes) rows served in pages of the given sizes
PagesOf(columns, rows, sizes) ==
    [i \in 1..Len(sizes) |->
        LET off == Sum(SubSeq(sizes, 1, i - 1))
        IN  [columns |-> columns,
             rows |-> SubSeq(rows, off + 1, off + sizes[i]),
             next |-> IF i < Len(sizes) THEN CursorOf(i + 1) ELSE None]]

\* one page holding at most one row, of any content
SmallServers ==
    { <<[columns |-> c, rows |-> r, next |-> None]>> :
        <<c, r>> \in UNION { {c} \X ({<<>>} \cup {<<row>> : row \in [1..Len(c) -> CellValues]})
                                : c \in ColumnLists } }

PageSizes ==
    {s \in SeqsUpTo(0..MaxPageRows, MaxPages) : s # <<>> /\ Sum(s) <= MaxTableRows}

\* the rows of RowPool, split into pages
PagedServers ==
    {PagesOf(<<ColA, ColB>>, SubSeq(RowPool, 1, Sum(s)), s) : s \in PageSizes}

\* a table that never ends: every page holds rows and a live cursor, the
\* last page's cursor naming the first page again
LiveServers ==
    { [i \in 1..Len(sv) |-> IF i = Len(sv) THEN [sv[i] EXCEPT !.next = CursorOf(1)] ELSE sv[i]] :
        sv \in {x \in PagedServers : \A i \in 1..Len(x) : x[i].rows # <<>>} }

\* a dataset (list, series) is served whole
DatasetServers ==
    {PagesOf(<<ColA, ColB>>, SubSeq(RowPool, 1, n), <<n>>) : n \in 0..MaxTableRows}

(***************************************************************************)
(* The state of one invocation.                                            *)
(***************************************************************************)
VARIABLES
    variant,           \* the entry point invoked; "getRows" is the row driver called alone
    auth_token,        \* flex.vars['quandl_api_key'], or None
    input,             \* flex.input, as a JSON value (Malformed: not JSON)
    server,            \* the pages the upstream server holds
    pc,                \* where the invocation is: start, http, response, body, next, done, failed
    error,             \* the exception the invocation ended with
    properties,        \* the handler's properties
    result,            \* the handler's result
    written,           \* flex.output.write was called
    current_row,       \* the table handler's current_row
    url_query_params,  \* getRows' url_query_params (the handler's, for list and series)
    cursor_id,         \* getRows' cursor_id
    content,           \* the page getRows is yielding from: columns (cleaned), rows, next
    row_idx,           \* how many rows of content getRows has yielded
    item,              \* the item getRows yielded last
    attempts,          \* HTTP attempts made for the current GET
    response,          \* what the last GET returned or raised
    requests,          \* history: the query parameters of every GET issued
    delivered          \* history: the items getRows yielded

inVars == <<variant, auth_token, input, server>>
handlerVars == <<properties, result, written, current_row>>
genVars == <<url_query_params, cursor_id, content, row_idx, item, delivered>>
httpVars == <<attempts, response, requests>>
vars == <<inVars, pc, error, handlerVars, genVars, httpVars>>

(***************************************************************************)
(* Program constants.                                                      *)
(***************************************************************************)
max_rows_to_return == 1

retries == 3

status_forcelist == {429, 500, 502, 503, 504}

per_page == <<"5000">>

ApiKeyKey == <<"api_key">>
PerPageKey == <<"qopts.per_page">>
CursorKey == <<"qopts.cursor_id">>

\* (mutant) no entry point retries
UsesRetrySessionNever(v) == FALSE

\* the list entry point calls requests.get; series and table go through
\* requests_retry_session
UsesRetrySession(v) == v # "list"

(***************************************************************************)
(* The handlers' parameter mapping: dict(zip(params.keys(), input)) and    *)
(* Validator.validated.                                                    *)
(***************************************************************************)
Absent == [t |-> "absent", v |-> 0]

Arg(in, k) == IF in.t = "list" /\ Len(in.v) >= k THEN in.v[k] ELSE Absent

\* a missing or null value takes the declared default
WithDefault(value, default) ==
    IF value.t \in {"absent", "none"} THEN default ELSE value

\* input['properties'] after the default and coerce: to_list
CoercedProperties(in) == to_list(WithDefault(Arg(in, 2), Str(<<"*">>)))

\* input['filter'] after the default and coerce: str
CoercedFilter(in) ==
    LET f == WithDefault(Arg(in, 3), Str(<<>>))
    IN  IF f.t = "str" THEN f.v ELSE <<"0">>

\* json.loads gave a list, the required name is there (str coerces any
\* value), properties is valid
InputValid(in) ==
    /\ in.t = "list"
    /\ Arg(in, 1).t # "absent"
    /\ CoercedProperties(in).t = "list"
    /\ validator_list(CoercedProperties(in))

\* [p.lower().strip() for p in input['properties']]
CleanProperties(in) ==
    LET ps == CoercedProperties(in).v
    IN  [i \in 1..Len(ps) |-> Strip(Lower(ps[i].v))]

(***************************************************************************)
(* getRows: the query parameters.                                          *)
(***************************************************************************)
\* (mutant) the last value of a repeated filter key replaces the earlier ones
BaseParamsLastValue(token, table_filter) ==
    LET base == (ApiKeyKey :> token) @@ (PerPageKey :> per_page)
        filter == parse_qs(table_filter)
    IN  [k \in DOMAIN base \cup DOMAIN filter |->
            IF k \in DOMAIN filter THEN filter[k][Len(filter[k])] ELSE base[k]]

\* api_key and qopts.per_page, then one entry per filter key
BaseParams(token, table_filter) ==
    LET base == (ApiKeyKey :> token) @@ (PerPageKey :> per_page)
        filter == parse_qs(table_filter)
    IN  [k \in DOMAIN base \cup DOMAIN filter |->
            IF k \in DOMAIN filter THEN Join(filter[k], ",") ELSE base[k]]

\* url_query_params['qopts.cursor_id'] = cursor_id
WithCursor(params, cursor) ==
    [k \in DOMAIN params \cup {CursorKey} |-> IF k = CursorKey THEN cursor ELSE params[k]]

\* the query parameters of the next GET of getRows
NextParams(params, cursor) ==
    IF cursor # None THEN WithCursor(params, cursor) ELSE params

NoContent == [columns |-> <<>>, rows |-> <<>>, next |-> None]
NoItem == [columns |-> <<>>, row |-> <<"no item">>]
NoResponse == [kind |-> "none", status |-> 0, json |-> FALSE, page |-> 0]

TypeOK ==
    /\ variant \in Variants \cup {"getRows"}
    /\ pc \in {"start", "http", "response", "body", "next", "done", "failed"}
    /\ written \in BOOLEAN
    /\ current_row \in Nat
    /\ attempts \in Nat
    /\ row_idx \in Nat

Init ==
    /\ \/ \* any shape of properties, a one-page server
          /\ variant \in Variants
          /\ auth_token = ApiKey
          /\ input \in {List(<<TableName, p>>) : p \in RichProperties}
          /\ server \in SmallServers
       \/ \* plain properties, any filter, a paged table or a whole dataset
          /\ variant \in Variants
          /\ auth_token = ApiKey
          /\ IF variant = "table"
             THEN /\ input \in {List(<<TableName>>)} \cup
                               {List(<<TableName, p, Str(f)>>) :
                                    p \in PlainProperties, f \in FilterStrings}
                  /\ server \in PagedServers
             ELSE /\ input \in {List(<<TableName>>)} \cup
                               {List(<<TableName, p>>) : p \in PlainProperties}
                  /\ server \in DatasetServers
       \/ \* no credential, or an input the handler rejects
          /\ variant \in Variants
          /\ auth_token \in {None, ApiKey}
          /\ input \in {Malformed, Num, List(<<>>), List(<<TableName>>),
                        List(<<TableName, Num>>)}
          /\ auth_token = None \/ ~InputValid(input)
          /\ server \in DatasetServers
       \/ \* a table that never ends
          /\ variant = "table"
          /\ auth_token = ApiKey
          /\ input \in {List(<<TableName>>), List(<<TableName, Str(<<"a">>), Str(<<"k", "=", "v">>)>>)}
          /\ server \in LiveServers
       \/ \* the row driver called alone, its caller taking every item
          /\ variant = "getRows"
          /\ auth_token = ApiKey
          /\ input \in {List(<<TableName, Str(<<"*">>), Str(f)>>) : f \in FilterStrings}
          /\ server \in PagedServers
    /\ pc = "start"
    /\ error = "none"
    /\ properties = <<>>
    /\ result = <<>>
    /\ written = FALSE
    /\ current_row = 0
    /\ url_query_params = <<>>
    /\ cursor_id = None
    /\ content = NoContent
    /\ row_idx = 0
    /\ item = NoItem
    /\ attempts = 0
    /\ response = NoResponse
    /\ requests = <<>>
    /\ delivered = <<>>

(***************************************************************************)
(* Steps shared by the actions.                                            *)
(***************************************************************************)
\* an exception leaves the handler: nothing is written
Fail(name) ==
    /\ pc' = "failed"
    /\ error' = name

\* a GET with these query parameters is issued
IssueRequest(params) ==
    /\ Len(requests) < MaxRequests
    /\ pc' = "http"
    /\ url_query_params' = params
    /\ requests' = Append(requests, params)
    /\ attempts' = 0
    /\ response' = NoResponse

\* the for loop over getRows is over: json.dumps and flex.output.write.
\* The row driver called alone just ends.
EndOfRows(grid) ==
    /\ pc' = "done"
    /\ result' = grid
    /\ written' = (variant # "getRows")

\* getRows yields row i of the page pg
Yield(pg, i) ==
    /\ pc' = "body"
    /\ item' = [columns |-> pg.columns, row |-> pg.rows[i]]
    /\ row_idx' = i
    /\ delivered' = Append(delivered, [columns |-> pg.columns, row |-> pg.rows[i]])

(***************************************************************************)
(* flexio_handler, up to its first GET.                                    *)
(***************************************************************************)
\* (mutant) the credential check is gone
MissingCredentialNever(token) == FALSE

\* if auth_token is None
MissingCredential(token) == token = None

Invoke ==
    /\ pc = "start"
    /\ variant \in Variants
    /\ IF MissingCredential(auth_token)
       THEN IF variant = "list"
            THEN \* flex.output.write([[""]]); return
                 /\ pc' = "done"
                 /\ result' = << << <<>> >> >>
                 /\ written' = TRUE
                 /\ UNCHANGED <<error, properties, current_row, url_query_params, httpVars>>
            ELSE /\ Fail("ValueError")
                 /\ UNCHANGED <<handlerVars, url_query_params, httpVars>>
       ELSE IF ~InputValid(input)
       THEN /\ Fail("ValueError")
            /\ UNCHANGED <<handlerVars, url_query_params, httpVars>>
       ELSE /\ properties' = CleanProperties(input)
            /\ IssueRequest(IF variant = "table"
                            THEN NextParams(BaseParams(auth_token, CoercedFilter(input)), None)
                            ELSE (ApiKeyKey :> auth_token))
            /\ UNCHANGED <<error, result, written, current_row>>
    /\ UNCHANGED <<inVars, cursor_id, content, row_idx, item, delivered>>

\* the row driver called alone, getRows(auth_token, table_name, table_filter):
\* the first next() on the generator runs it to its first GET
CallGetRows ==
    /\ pc = "start"
    /\ variant = "getRows"
    /\ IssueRequest(NextParams(BaseParams(auth_token, CoercedFilter(input)), None))
    /\ UNCHANGED <<inVars, error, handlerVars, cursor_id, content, row_idx, item, delivered>>

(***************************************************************************)
(* One HTTP attempt of the current GET, and what the retry policy of       *)
(* requests_retry_session (urllib3 Retry) makes of it.                     *)
(***************************************************************************)
ServerStatuses == {200, 404, 503}

\* the page the server serves for these query parameters: the first one
\* without a cursor, 0 when it does not know the cursor
PageFor(params) ==
    IF CursorKey \notin DOMAIN params THEN 1
    ELSE LET hits == {i \in 1..Len(server) : CursorOf(i) = params[CursorKey]}
         IN  IF hits = {} THEN 0 ELSE CHOOSE i \in hits : TRUE

\* what one attempt can come back with
Outcomes(params) ==
    {[kind |-> "connection error", status |-> 0, json |-> FALSE, page |-> 0]}
    \cup {[kind |-> "response", status |-> 200, json |-> TRUE, page |-> PageFor(params)] :
             x \in {y \in {1} : PageFor(params) # 0}}
    \cup {[kind |-> "response", status |-> st, json |-> j, page |-> 0] :
             st \in ServerStatuses \ {200}, j \in BOOLEAN}

\* the attempt failed in a way Retry counts
Retryable(out) ==
    \/ out.kind = "connection error"
    \/ out.kind = "response" /\ out.status \in status_forcelist

\* what .get() returns or raises once no retry is left
Final(out) ==
    IF out.kind = "connection error"
    THEN [out EXCEPT !.kind = "ConnectionError"]
    ELSE [out EXCEPT !.kind = "RetryError"]

Attempt ==
    /\ pc = "http"
    /\ \E out \in Outcomes(url_query_params) :
          /\ attempts' = attempts + 1
          /\ IF UsesRetrySession(variant) /\ Retryable(out)
             THEN IF attempts < retries
                  THEN \* sleep the backoff and try again
                       UNCHANGED <<pc, response>>
                  ELSE pc' = "response" /\ response' = Final(out)
             ELSE IF out.kind = "connection error"
             THEN pc' = "response" /\ response' = Final(out)
             ELSE pc' = "response" /\ response' = out
    /\ UNCHANGED <<inVars, error, handlerVars, genVars, requests>>

(***************************************************************************)
(* list and series: the rest of flexio_handler, inside its try block.      *)
(***************************************************************************)
\* content.get('dataset', {}): an error body holds no dataset
DatasetOf(resp) ==
    IF resp.status = 200 THEN server[resp.page]
    ELSE [columns |-> <<>>, rows |-> <<>>, next |-> None]

\* the keys of dict(zip(..., r)): the list handler zips the properties,
\* the series handler the columns
ZipKeys(v, props, columns) == IF v = "list" THEN props ELSE columns

\* result: the header, then one projected row per data row
Grid(v, props, columns, rows) ==
    <<props>> \o [i \in 1..Len(rows) |-> Project(ZipKeys(v, props, columns), rows[i], props)]

DatasetResponse ==
    /\ pc = "response"
    /\ variant \in {"list", "series"}
    /\ IF response.kind # "response" \/ ~response.json
       THEN \* .get() or .json() raised: except: raise RuntimeError
            /\ Fail("RuntimeError")
            /\ UNCHANGED <<handlerVars, content>>
       ELSE LET data == DatasetOf(response)
                columns == CleanNames(data.columns)
                props == ResolveProperties(properties, columns)
            IN  /\ content' = [data EXCEPT !.columns = columns]
                /\ properties' = props
                /\ result' = Grid(variant, props, columns, data.rows)
                /\ written' = TRUE
                /\ pc' = "done"
                /\ UNCHANGED <<error, current_row>>
    /\ UNCHANGED <<inVars, url_query_params, cursor_id, row_idx, item, delivered, httpVars>>

(***************************************************************************)
(* table: getRows from the response of a GET to its next yield or return.  *)
(***************************************************************************)
\* (mutant) a page without rows ends the generator only when its cursor is null
EmptyPageAtNullCursor(pg) == Len(pg.rows) = 0 /\ pg.next = None

\* if len(rows) == 0: return
EmptyPage(pg) == Len(pg.rows) = 0

\* (mutant) the loop over the rows ends one row early
MoreRowsButLast(pg, idx) == idx + 1 < Len(pg.rows)

\* for r in rows: the loop has another row to yield
MoreRows(pg, idx) == idx < Len(pg.rows)

\* (mutant) the cursor is never taken to be null
NoMorePagesNever(cursor) == FALSE

\* if cursor_id is None: return
NoMorePages(cursor) == cursor = None

\* after the for loop over the rows: next_cursor_id is read, and the while
\* loop either returns or goes round to the next GET
ReadCursor(pg) ==
    /\ cursor_id' = pg.next
    /\ IF NoMorePages(pg.next)
       THEN /\ EndOfRows(result)
            /\ UNCHANGED <<url_query_params, httpVars>>
       ELSE /\ IssueRequest(NextParams(url_query_params, pg.next))
            /\ UNCHANGED <<result, written>>

TableResponse ==
    /\ pc = "response"
    /\ variant \in {"table", "getRows"}
    /\ IF response.kind # "response"
       THEN \* .get() raised
            /\ Fail(response.kind)
            /\ UNCHANGED <<result, written, content, row_idx, item, delivered>>
            /\ UNCHANGED <<url_query_params, cursor_id, httpVars>>
       ELSE IF response.status >= 400
       THEN \* response.raise_for_status()
            /\ Fail("HTTPError")
            /\ UNCHANGED <<result, written, content, row_idx, item, delivered>>
            /\ UNCHANGED <<url_query_params, cursor_id, httpVars>>
       ELSE LET data == server[response.page]
                pg == [data EXCEPT !.columns = CleanNames(data.columns)]
            IN  /\ content' = pg
                /\ IF EmptyPage(pg)
                   THEN \* return {'columns': columns, 'row': None}: the generator ends
                        /\ EndOfRows(result)
                        /\ UNCHANGED <<error, row_idx, item, delivered>>
                        /\ UNCHANGED <<url_query_params, cursor_id, httpVars>>
                   ELSE IF MoreRows(pg, 0)
                   THEN \* for r in rows: the first row of the page
                        /\ Yield(pg, 1)
                        /\ UNCHANGED <<error, result, written>>
                        /\ UNCHANGED <<url_query_params, cursor_id, httpVars>>
                   ELSE \* the for loop had nothing to yield
                        /\ ReadCursor(pg)
                        /\ UNCHANGED <<error, row_idx, item, delivered>>
    /\ UNCHANGED <<inVars, properties, current_row>>

(***************************************************************************)
(* table: the body of the handler's for loop, for one yielded item.        *)
(***************************************************************************)
\* (mutant) the ceiling is never reached
AtCeilingNever(n) == FALSE

\* if current_row >= max_rows_to_return
AtCeiling(n) == n >= max_rows_to_return

LoopBody ==
    /\ pc = "body"
    /\ variant = "table"
    /\ IF AtCeiling(current_row)
       THEN \* break
            /\ EndOfRows(result)
            /\ UNCHANGED <<properties, current_row>>
       ELSE LET props == ResolveProperties(properties, item.columns)
                headed == IF current_row = 0 THEN Append(result, props) ELSE result
            IN  /\ properties' = props
                /\ IF item.row = None
                   THEN \* no row data: break
                        /\ EndOfRows(headed)
                        /\ UNCHANGED current_row
                   ELSE /\ result' = Append(headed, Project(item.columns, item.row, props))
                        /\ current_row' = current_row + 1
                        /\ pc' = "next"
                        /\ UNCHANGED written
    /\ UNCHANGED <<inVars, error, genVars, httpVars>>

\* the row driver called alone: the caller takes the item and asks for the next
Drain ==
    /\ pc = "body"
    /\ variant = "getRows"
    /\ pc' = "next"
    /\ UNCHANGED <<inVars, error, handlerVars, genVars, httpVars>>

(***************************************************************************)
(* table: getRows resumed after a yield.                                   *)
(***************************************************************************)
Resume ==
    /\ pc = "next"
    /\ IF MoreRows(content, row_idx)
       THEN \* for r in rows: the next row of the page
            /\ Yield(content, row_idx + 1)
            /\ UNCHANGED <<result, written, url_query_params, cursor_id, httpVars>>
       ELSE \* the page is used up
            /\ ReadCursor(content)
            /\ UNCHANGED <<row_idx, item, delivered>>
    /\ UNCHANGED <<inVars, error, properties, current_row, content>>

Next ==
    \/ Invoke
    \/ CallGetRows
    \/ Attempt
    \/ DatasetResponse
    \/ TableResponse
    \/ LoopBody
    \/ Drain
    \/ Resume

Spec == Init /\ [][Next]_vars

(***************************************************************************)
(* What the claims speak of.                                               *)
(***************************************************************************)
\* the invocation ended by writing its output
Succeeded == pc = "done" /\ written

\* the rows of a sequence of yielded items
RowsOf(items) == [i \in 1..Len(items) |-> items[i].row]

\* the data rows the output was projected from, each with its page's columns
SourceItems ==
    IF variant = "table" THEN delivered
    ELSE [i \in 1..Len(content.rows) |->
            [columns |-> content.columns, row |-> content.rows[i]]]

\* the value of row under the column named p, the empty string when the
\* page has no such column or the value is null, 0, false or ""
ByName(columns, row, p) ==
    LET hits == {i \in 1..Len(columns) : columns[i] = p /\ i <= Len(row)}
    IN  IF hits = {} THEN EmptyString
        ELSE LET v == row[CHOOSE i \in hits : TRUE]
             IN  IF v \in {"null", "0", "false", "\"\""} THEN EmptyString ELSE v

\* the page a cursor names
PageOfCursor(c) == CHOOSE i \in 1..Len(server) : CursorOf(i) = c

\* the rows found by following next_cursor_id from page i until it is null
RECURSIVE FollowLinks(_)
FollowLinks(i) ==
    server[i].rows \o
        (IF server[i].next = None THEN <<>> ELSE FollowLinks(PageOfCursor(server[i].next)))

\* the same, stopping at the first page without rows as well
RECURSIVE FollowLinksToEmpty(_)
FollowLinksToEmpty(i) ==
    IF server[i].rows = <<>> \/ server[i].next = None THEN server[i].rows
    ELSE server[i].rows \o FollowLinksToEmpty(PageOfCursor(server[i].next))

\* the page the first GET of the invocation was served
FirstPage == PageFor(requests[1])

\* the row driver, called alone, ran to its end without an exception
DriverCompleted == variant = "getRows" /\ pc = "done"

\* the last GET was answered with a page whose next_cursor_id is null
NullCursorSeen ==
    /\ response.kind = "response"
    /\ response.status = 200
    /\ server[response.page].next = None

(***************************************************************************)
(* C1.  Projection is by column name in every variant: each output cell is *)
(* the row's value under the column named by the header cell above it, or  *)
(* the empty string when the page has no such column or the value is       *)
(* falsy.  The list handler zips the row with the properties instead of    *)
(* the columns, so the statement fails there.                              *)
(***************************************************************************)
C1_ProjectionByName ==
    Succeeded /\ variant \in Variants /\ Len(result) > 1 =>
        \A r \in 2..Len(result) : \A k \in 1..Len(result[1]) :
            result[r][k] =
                ByName(SourceItems[r - 1].columns, SourceItems[r - 1].row, result[1][k])

\* the same statement without the list entry point
C1_ProjectionByNameSeriesTable ==
    variant # "list" => C1_ProjectionByName

(***************************************************************************)
(* C2.  Pagination is a pure concatenation: the row driver run to its end  *)
(* yields the rows found by following next_cursor_id link by link until it *)
(* is null.  As stated this fails on a page without rows whose cursor is   *)
(* live: the driver ends there.                                            *)
(***************************************************************************)
C2_PureConcatenation ==
    DriverCompleted => RowsOf(delivered) = FollowLinks(FirstPage)

\* C2 as amended: the rows found by following next_cursor_id link by link
\* until it is null or a page has no rows, in order, none twice, none missing
C2_ConcatenationToEmptyPage ==
    DriverCompleted => RowsOf(delivered) = FollowLinksToEmpty(FirstPage)

\* the driver went through three pages and yielded rows of more than one
C2_Witness ==
    /\ DriverCompleted
    /\ Len(requests) = 3
    /\ Len(delivered) = 3

(***************************************************************************)
(* C3.  Pagination stops exactly at a null cursor: once a page whose       *)
(* next_cursor_id is null has been received, no further GET is issued, and *)
(* the driver run to its end has yielded that page's rows last.            *)
(***************************************************************************)
C3_StopsAtNullCursor ==
    /\ [][NullCursorSeen => requests' = requests]_vars
    /\ [](DriverCompleted /\ NullCursorSeen =>
            LET page == server[response.page].rows
                n == Len(delivered)
            IN  /\ n >= Len(page)
                /\ RowsOf(SubSeq(delivered, n - Len(page) + 1, n)) = page)

\* the driver ended on a null cursor after two pages, the last one with rows
C3_Witness ==
    /\ DriverCompleted
    /\ NullCursorSeen
    /\ Len(requests) = 2
    /\ server[response.page].rows # <<>>
    /\ Len(delivered) > Len(server[response.page].rows)

\* the handler got past the credential check and the validation
Accepted == variant \in Variants /\ auth_token # None /\ InputValid(input)

\* the data rows the handler projected
DataRowCount == IF variant = "table" THEN current_row ELSE Len(content.rows)

\* a column name lowercased and trimmed
CleanedName(c) ==
    CASE c = ColA -> <<"a">>
      [] c = ColB -> <<"b">>

\* the column list of the first response, lowercased and trimmed; a
\* response that is no dataset holds no columns
FirstColumns ==
    IF variant # "table" /\ response.status # 200 THEN <<>>
    ELSE LET cols == server[FirstPage].columns
         IN  [i \in 1..Len(cols) |-> CleanedName(cols[i])]

\* properties is the wildcard, given or by default
WildcardRequest ==
    Arg(input, 2) \in {Absent, NoneVal, Str(<<"*">>), List(<<Str(<<"*">>)>>)}

\* the names a properties value lists: the segments of a string, the
\* strings of a sequence with its nested sequences flattened
RECURSIVE ListedNames(_)
ListedNames(items) ==
    IF items = <<>> THEN <<>>
    ELSE (IF Head(items).t = "list"
          THEN [j \in 1..Len(Head(items).v) |-> Head(items).v[j].v]
          ELSE <<Head(items).v>>)
            \o ListedNames(Tail(items))

\* the header an explicit properties value asks for
RequestedHeader ==
    LET p == Arg(input, 2)
        names == IF p.t = "str" THEN Split(p.v, ",") ELSE ListedNames(p.v)
    IN  [i \in 1..Len(names) |-> Strip(Lower(names[i]))]

\* properties is an explicit list of names
ExplicitRequest ==
    /\ Arg(input, 2).t \in {"str", "list"}
    /\ RequestedHeader # Wildcard

\* a filter with a segment that holds no "="
MalformedFilter(f) ==
    /\ f # <<>>
    /\ \E i \in 1..Len(Split(f, "&")) :
          \A j \in 1..Len(Split(f, "&")[i]) : Split(f, "&")[i][j] # "="

(***************************************************************************)
(* C4.  Pagination stops at the row ceiling: once the table handler's      *)
(* output holds max_rows_to_return data rows, no further GET is issued.    *)
(* The handler tests the ceiling only after getRows has produced the next  *)
(* item, and getRows fetches the next page to produce it.                  *)
(***************************************************************************)
C4_NoRequestAtCeiling ==
    [][variant = "table" /\ current_row >= max_rows_to_return
          => requests' = requests]_vars

(***************************************************************************)
(* C5.  In every successful invocation the resolved property list is       *)
(* emitted exactly once, as the first element of the output, whatever the  *)
(* number of data rows, zero included.  getRows returns instead of         *)
(* yielding on a page without rows, so the table handler writes [] then.   *)
(***************************************************************************)
C5_HeaderOnceFirst ==
    Succeeded /\ Accepted =>
        /\ Len(result) >= 1
        /\ result[1] = properties
        /\ Len(result) = 1 + DataRowCount

\* the same statement without the table runs that got no row
C5_HeaderOnceFirstWithRows ==
    ~(variant = "table" /\ delivered = <<>>) => C5_HeaderOnceFirst

(***************************************************************************)
(* C6.  For a request whose properties are the wildcard, given or by       *)
(* default, the emitted header is the first page's column list, lowercased *)
(* and trimmed, in the server's order.                                     *)
(***************************************************************************)
C6_WildcardHeader ==
    Succeeded /\ Accepted /\ WildcardRequest /\ result # <<>> =>
        result[1] = FirstColumns

\* a wildcard table request answered with two columns and a row
C6_Witness ==
    /\ Succeeded /\ Accepted /\ WildcardRequest
    /\ variant = "table"
    /\ Len(result) = 2
    /\ result[1] = << <<"b">>, <<"a">> >>

(***************************************************************************)
(* C7.  For a request with an explicit property list, given as one         *)
(* comma-separated string or as a sequence of strings (nested sequences    *)
(* flattened), the emitted header is that list of names, each trimmed and  *)
(* lowercased, in the caller's order.  to_list chains over the strings of  *)
(* a sequence too, which splits each into its characters.                  *)
(***************************************************************************)
C7_ExplicitHeader ==
    Succeeded /\ Accepted /\ ExplicitRequest /\ result # <<>> =>
        result[1] = RequestedHeader

\* the same statement for properties given as one string
C7_ExplicitHeaderString ==
    Arg(input, 2).t = "str" => C7_ExplicitHeader

(***************************************************************************)
(* C8.  Every GET of an entry point is retried on a status of              *)
(* status_forcelist or a connection failure, up to 3 more attempts: a GET  *)
(* ends on such a failure only after 4 attempts, never makes more than 4,  *)
(* and each GET starts with a fresh budget.  The list handler calls        *)
(* requests.get, which does not retry.                                     *)
(***************************************************************************)
C8_RetriedUpToThreeTimes ==
    variant \in Variants =>
        /\ attempts <= retries + 1
        /\ pc = "http" /\ response = NoResponse => attempts <= retries
        /\ pc = "response" /\ ( \/ response.kind \in {"ConnectionError", "RetryError"}
                                 \/ response.status \in status_forcelist )
              => attempts = retries + 1

\* the same statement without the list entry point
C8_RetriedSeriesTable ==
    variant # "list" => C8_RetriedUpToThreeTimes

(***************************************************************************)
(* C9.  In every variant a response with a failure status outside the      *)
(* retryable set ends the GET at once and fails the invocation: no output  *)
(* is written.  Only the table driver calls raise_for_status; list and     *)
(* series read the error body as an empty dataset.                         *)
(***************************************************************************)
C9_FailureStatusFails ==
    /\ variant \in Variants
    /\ response.kind = "response"
    /\ response.status >= 400
    /\ response.status \notin status_forcelist
    => /\ ~written
       /\ pc \in {"response", "failed"}

\* the same statement for the table entry point
C9_FailureStatusFailsTable ==
    variant = "table" => C9_FailureStatusFails

(***************************************************************************)
(* C10.  A filter with malformed syntax (a segment without "=") makes the  *)
(* table invocation fail with an input error before any GET is issued.     *)
(* parse_qs is called without strict_parsing and skips such a segment.     *)
(***************************************************************************)
C10_MalformedFilterRejected ==
    variant = "table" /\ Accepted /\ MalformedFilter(CoercedFilter(input)) =>
        /\ requests = <<>>
        /\ pc \in {"start", "failed"}
        /\ pc = "failed" => error = "ValueError"

\* the last GET was answered with a page that holds no rows
EmptyPageSeen ==
    /\ response.kind = "response"
    /\ response.status = 200
    /\ server[response.page].rows = <<>>

\* the same, in an invocation that pages through a table
PagingEmptyPageSeen == variant \in {"table", "getRows"} /\ EmptyPageSeen

(***************************************************************************)
(* C11.  A page without rows ends pagination whatever its cursor: once     *)
(* such a page has been received no further GET is issued, and the row     *)
(* driver is over as soon as it has read the page.                         *)
(***************************************************************************)
C11_StopsAtEmptyPage ==
    /\ [][PagingEmptyPageSeen => requests' = requests]_vars
    /\ [](PagingEmptyPageSeen => pc \in {"response", "done"})

\* the driver ended on a second page without rows whose cursor was live
C11_Witness ==
    /\ DriverCompleted
    /\ EmptyPageSeen
    /\ server[response.page].next # None
    /\ Len(requests) = 2
    /\ delivered # <<>>

\* the output the list handler writes when it has no credential: [[""]]
Sentinel == << << <<>> >> >>

(***************************************************************************)
(* C12.  Without a credential no entry point issues a GET: the list        *)
(* handler writes the sentinel [[""]] and returns normally, the series and *)
(* table handlers fail with an input error and write nothing.              *)
(***************************************************************************)
C12_NoCredentialNoRequest ==
    variant \in Variants /\ auth_token = None =>
        /\ requests = <<>>
        /\ pc \in {"start", IF variant = "list" THEN "done" ELSE "failed"}
        /\ pc = "done" => written /\ result = Sentinel
        /\ pc = "failed" => ~written /\ error = "ValueError"

\* the list handler returned the sentinel for want of a credential
C12_Witness ==
    /\ variant = "list"
    /\ auth_token = None
    /\ pc = "done"
    /\ result = Sentinel
    /\ InputValid(input)

\* every item is a string
IsStrings(items) == \A i \in 1..Len(items) : items[i].t = "str"

\* a properties value that is neither a string nor a sequence of strings,
\* nested sequences of strings included
BadProperties(p) ==
    \/ p.t \notin {"absent", "none", "str", "list"}
    \/ /\ p.t = "list"
       /\ \E i \in 1..Len(p.v) :
             ~(p.v[i].t = "str" \/ (p.v[i].t = "list" /\ IsStrings(p.v[i].v)))

\* the caller input is not a JSON array, holds no name, or holds
\* properties of a wrong shape
RejectedInput ==
    \/ input.t # "list"
    \/ input.t = "list" /\ Len(input.v) = 0
    \/ BadProperties(Arg(input, 2))

\* the invocation fails with an input error before any GET
FailsAsInvalidInput ==
    /\ requests = <<>>
    /\ ~written
    /\ pc \in {"start", "failed"}
    /\ pc = "failed" => error = "ValueError"

Paging == variant \in {"table", "getRows"} /\ requests # <<>>

\* the key=value segments of a filter string, each as <<key, value>>: a
\* segment counts when it holds a "=" with a value after it
FilterPairs(f) ==
    LET segs == Split(f, "&")
        eq(seg) == {i \in 1..Len(seg) : seg[i] = "="}
        first(seg) == CHOOSE i \in eq(seg) : \A j \in eq(seg) : i <= j
        holds == SelectSeq(segs, LAMBDA seg : eq(seg) # {} /\ first(seg) < Len(seg))
    IN  [n \in 1..Len(holds) |->
            <<SubSeq(holds[n], 1, first(holds[n]) - 1),
              SubSeq(holds[n], first(holds[n]) + 1, Len(holds[n]))>>]

FilterKeys(f) == {FilterPairs(f)[n][1] : n \in 1..Len(FilterPairs(f))}

\* the values a filter gives a key, in the order written, with "," between
RECURSIVE UnifiedFrom(_, _, _)
UnifiedFrom(pairs, key, acc) ==
    IF pairs = <<>> THEN acc
    ELSE IF pairs[1][1] # key THEN UnifiedFrom(Tail(pairs), key, acc)
    ELSE UnifiedFrom(Tail(pairs), key,
                     IF acc = <<>> THEN pairs[1][2] ELSE acc \o <<",">> \o pairs[1][2])

Unified(f, key) == UnifiedFrom(FilterPairs(f), key, <<>>)

(***************************************************************************)
(* C14.  Filter flattening: the query of every GET of the table driver     *)
(* holds each key of the filter's key=value pairs once, its value the      *)
(* values the filter gives the key, in their order, joined by commas, and  *)
(* holds no other key but api_key, qopts.per_page and the cursor.  So      *)
(* k=v&k=w and k=v,w both send k=v,w, and k=v,w&j=x sends k=v,w and j=x.   *)
(* (The cursor read from a page replaces a qopts.cursor_id of the filter   *)
(* in the later requests.)                                                 *)
(***************************************************************************)
C14_FilterFlattened ==
    Paging =>
        LET f == CoercedFilter(input)
        IN  /\ \A i \in 1..Len(requests) :
                  /\ \A key \in FilterKeys(f) \ (IF i = 1 THEN {} ELSE {CursorKey}) :
                        key \in DOMAIN requests[i] /\ requests[i][key] = Unified(f, key)
                  /\ DOMAIN requests[i] \subseteq
                        FilterKeys(f) \cup {ApiKeyKey, PerPageKey, CursorKey}
            /\ f \in { <<"k", "=", "v", "&", "k", "=", "w">>, <<"k", "=", "v", ",", "w">> }
                  => requests[1][<<"k">>] = <<"v", ",", "w">>
            /\ f = <<"k", "=", "v", ",", "w", "&", "j", "=", "x">>
                  => requests[1][<<"k">>] = <<"v", ",", "w">> /\ requests[1][<<"j">>] = <<"x">>

\* a repeated key was sent unified, on the first GET and on the next
C14_Witness ==
    /\ Paging
    /\ CoercedFilter(input) = <<"k", "=", "v", "&", "k", "=", "w">>
    /\ Len(requests) = 2
    /\ requests[2][<<"k">>] = <<"v", ",", "w">>

\* "Results are limited to 100k rows"
DocumentedLimit == 100000

\* the server holds a table that ends, served from its first page, no page
\* but the last one without rows
WholeTableServed ==
    /\ CursorKey \notin DOMAIN requests[1]
    /\ server[Len(server)].next = None
    /\ \A i \in 1..(Len(server) - 1) : server[i].rows # <<>>

\* the data rows of the output: what follows the header
OutputDataRows == IF result = <<>> THEN 0 ELSE Len(result) - 1

(***************************************************************************)
(* C15.  The table handler returns all rows of the requested table, up to  *)
(* the documented limit of 100,000 rows: a table of n rows, n at most the  *)
(* limit, gives n data rows in the output.  The handler's                  *)
(* max_rows_to_return is 1, so the output holds one data row at most.      *)
(***************************************************************************)
C15_AllRowsUpToLimit ==
    Succeeded /\ variant = "table" /\ WholeTableServed =>
        LET n == Len(FollowLinks(1))
        IN  n <= DocumentedLimit => OutputDataRows = n

\* the first n rows found by following next_cursor_id from page i, up to a
\* null cursor or a page without rows
RECURSIVE RowsFrom(_, _)
RowsFrom(i, n) ==
    LET rows == server[i].rows
    IN  IF Len(rows) >= n THEN SubSeq(rows, 1, n)
        ELSE IF rows = <<>> \/ server[i].next = None THEN rows
        ELSE rows \o RowsFrom(PageOfCursor(server[i].next), n - Len(rows))

\* the output of the invocation when every GET succeeds at its first
\* attempt: nothing for a table whose first page holds no row, else the
\* header and the rows projected on it (for a table up to the ceiling)
ImmediateSuccessGrid ==
    LET cols == CleanNames(server[FirstPage].columns)
        header == ResolveProperties(CleanProperties(input), cols)
        rows == IF variant = "table" THEN RowsFrom(FirstPage, max_rows_to_return)
                ELSE server[FirstPage].rows
    IN  IF variant = "table" /\ rows = <<>> THEN <<>>
        ELSE <<header>> \o [r \in 1..Len(rows) |-> Project(cols, rows[r], header)]

\* an attempt was made and the GET goes on to another one
RetriedAttempt == pc = "http" /\ pc' = "http" /\ attempts' # attempts

(***************************************************************************)
(* C16.  In the entry points that use requests_retry_session (series,      *)
(* table), a GET whose attempt fails with a 503 or a connection error and  *)
(* that succeeds within 3 retries gives what an immediate success gives:   *)
(* a retried attempt changes nothing but the attempt count (no row is      *)
(* delivered, no cursor read, no request added), the failure never shows   *)
(* as the GET's response, the response is the page the request asked for,  *)
(* each later request carries the cursor of the page before, and the       *)
(* output written is the grid of the run without failures.                 *)
(***************************************************************************)
C16_RetryThenSuccessSameOutput ==
    /\ [][RetriedAttempt =>
            UNCHANGED <<inVars, error, handlerVars, genVars, response, requests>>]_vars
    /\ [](variant \in {"series", "table", "getRows"} /\ response.kind = "response" =>
            /\ response.status \notin status_forcelist
            /\ response.status = 200 => response.page = PageFor(url_query_params))
    /\ [](variant \in {"table", "getRows"} =>
            \A i \in 2..Len(requests) :
                requests[i][CursorKey] = server[PageFor(requests[i - 1])].next)
    /\ [](variant \in {"series", "table"} /\ Succeeded /\ response.status = 200 =>
            result = ImmediateSuccessGrid)

\* the table handler wrote a header and a row, the second page fetched at
\* the third attempt
C16_Witness ==
    /\ variant = "table"
    /\ Succeeded
    /\ Len(requests) = 2
    /\ attempts = 3
    /\ response.status = 200
    /\ Len(result) = 2

(***************************************************************************)
(* C17.  Cursor chaining, for every filter string: the first GET of the    *)
(* table driver carries no qopts.cursor_id, and every later GET carries    *)
(* the next_cursor_id of the response before it.  A filter that holds the  *)
(* key qopts.cursor_id puts it on the first GET.                           *)
(***************************************************************************)
C17_CursorChaining ==
    Paging =>
        /\ CursorKey \notin DOMAIN requests[1]
        /\ \A i \in 2..Len(requests) :
              /\ CursorKey \in DOMAIN requests[i]
              /\ requests[i][CursorKey] = server[PageFor(requests[i - 1])].next

\* the same statement for the filters that do not name qopts.cursor_id
C17_CursorChainingPlainFilter ==
    CursorKey \notin FilterKeys(CoercedFilter(input)) => C17_CursorChaining

(***************************************************************************)
(* C18.  For every filter string every GET of the table driver carries the *)
(* credential the handler was given as api_key and 5000 as                 *)
(* qopts.per_page.  The filter's keys are stored after these two, so a     *)
(* filter that holds api_key or qopts.per_page replaces the value.         *)
(***************************************************************************)
C18_CredentialAndPageSize ==
    Paging =>
        \A i \in 1..Len(requests) :
            /\ requests[i][ApiKeyKey] = auth_token
            /\ requests[i][PerPageKey] = per_page

\* the same statement for the filters that name neither key
C18_CredentialAndPageSizePlainFilter ==
    FilterKeys(CoercedFilter(input)) \cap {ApiKeyKey, PerPageKey} = {} =>
        C18_CredentialAndPageSize

(***************************************************************************)
(* The table entry point alone, run to its end: the handler is sequential  *)
(* code, so it takes its next step whenever it has one, and every HTTP     *)
(* attempt returns.                                                        *)
(***************************************************************************)
TableInit ==
    /\ Init
    /\ variant = "table"
    /\ input \in {List(<<TableName>>),
                  List(<<TableName, Str(<<"a">>), Str(<<"k", "=", "v">>)>>),
                  List(<<TableName, Str(<<"*">>), Str(<<"qopts.cursor_id", "=", "c2">>)>>)}
    /\ server \in PagedServers \cup LiveServers

TableNext ==
    \/ Invoke
    \/ Attempt
    \/ TableResponse
    \/ LoopBody
    \/ Resume

TableSpec == TableInit /\ [][TableNext]_vars /\ WF_vars(TableNext)

\* the invocation is over: the output is written, or an exception was raised
Terminal == pc \in {"done", "failed"}

\* the server's cursor never runs out
LiveCursor == \A i \in 1..Len(server) : server[i].rows # <<>> /\ server[i].next # None

(***************************************************************************)
(* C19.  Every table invocation reaches a terminal state, the output       *)
(* written or an exception raised, whatever the server does, a server that *)
(* answers every request with rows and a live cursor included.             *)
(***************************************************************************)
C19_TableTerminates == <>Terminal

\* the handler wrote its output against a server whose cursor never runs out
C19_Witness ==
    /\ variant = "table"
    /\ LiveCursor
    /\ Succeeded
    /\ Len(requests) = 2
    /\ Len(result) = 2

(***************************************************************************)
(* C20.  When a page without rows is fetched, the last item getRows        *)
(* delivers to its consumer has the null marker as its row and that page's *)
(* columns.  getRows returns the item instead of yielding it: a value      *)
(* returned by a generator is not delivered, the iteration just ends.      *)
(***************************************************************************)
C20_NullRowMarkerDelivered ==
    PagingEmptyPageSeen /\ pc = "done" =>
        /\ delivered # <<>>
        /\ delivered[Len(delivered)].row = None
        /\ delivered[Len(delivered)].columns = CleanNames(server[response.page].columns)

====
